---- MODULE Spec2Model ----
(***************************************************************************)
(* abstrastore: the addressing scheme (pkg/schema/schema.go) and the       *)
(* transaction log (Transaction, TransactionStep) of package schema.       *)
(*                                                                         *)
(* Go strings are modelled as sequences of bytes, each written as a short  *)
(* string (an ASCII byte as its character), so that formatting, splitting, *)
(* slicing and parsing are computed and not assumed.                       *)
(***************************************************************************)
EXTENDS Integers, Sequences, FiniteSets, TLC

(***************************************************************************)
(* Bounds of the model.                                                    *)
(***************************************************************************)
\* longest step list explored
MaxSteps == 2
\* last instant of the wall clock explored, in clock units
MaxNow == 4
\* longest timeout handed to NewTransaction, in clock units
MaxTimeout == 2
\* clock units per microsecond (time.Time is finer than UnixMicro)
UnitsPerMicro == 2
\* most tokens a path handed to DatabaseTableIdTupleFromPath is built from
MaxTokens == 5
MaxIndices == 2

(***************************************************************************)
(* Go string helpers (package strings, fmt).                               *)
(***************************************************************************)
SEP == <<"_", "_", "_">>
SLASH == <<"/">>

\* strings.Index: 1-based position of the first occurrence of sep in s, 0 if none
Index(s, sep) ==
    LET hits == {i \in 1..(Len(s) - Len(sep) + 1) : SubSeq(s, i, i + Len(sep) - 1) = sep}
    IN IF hits = {} THEN 0 ELSE CHOOSE i \in hits : \A j \in hits : i <= j

\* strings.LastIndex(s, "/"): 1-based position of the last occurrence, 0 if none
LastIndex(s, sep) ==
    LET hits == {i \in 1..(Len(s) - Len(sep) + 1) : SubSeq(s, i, i + Len(sep) - 1) = sep}
    IN IF hits = {} THEN 0 ELSE CHOOSE i \in hits : \A j \in hits : i >= j

\* strings.SplitN(s, sep, n) for n # 0 and a non-empty sep; n < 0 splits everywhere
RECURSIVE SplitN(_, _, _)
SplitN(s, sep, n) ==
    IF n = 1 THEN <<s>>
    ELSE LET m == Index(s, sep)
         IN IF m = 0 THEN <<s>>
            ELSE <<SubSeq(s, 1, m - 1)>> \o SplitN(SubSeq(s, m + Len(sep), Len(s)), sep, n - 1)

\* strings.Split(s, sep)
Split(s, sep) == SplitN(s, sep, -1)

\* unicode lower-casing of the ASCII letters of the model's alphabet
LowerChar(c) == CASE c = "A" -> "a" [] c = "B" -> "b" [] OTHER -> c

\* U+212A KELVIN SIGN, three bytes in UTF-8; unicode.ToLower maps it to "k"
KELVIN == <<"E2", "84", "AA">>

\* strings.ToLower: unicode.ToLower mapped over the runes of s
RECURSIVE ToLower(_)
ToLower(s) ==
    IF s = <<>> THEN <<>>
    ELSE IF Len(s) >= 3 /\ SubSeq(s, 1, 3) = KELVIN THEN <<"k">> \o ToLower(SubSeq(s, 4, Len(s)))
    ELSE <<LowerChar(s[1])>> \o ToLower(Tail(s))

(***************************************************************************)
(* pkg/schema/schema.go: the addressing scheme.                            *)
(* A Table is [Database, Name]; an Index is [Table, Field].                *)
(***************************************************************************)
DATA == <<"d", "a", "t", "a">>
INDICES == <<"i", "n", "d", "i", "c", "e", "s">>
DOTJSON == <<".", "j", "s", "o", "n">>
DOTINDICES == <<".">> \o INDICES

\* pathPrefix leaving the database out of the key
pathPrefixNoDatabase(t) == t.Name \o SLASH \o DATA

\* Table.pathPrefix
pathPrefix(t) == t.Database \o SLASH \o t.Name \o SLASH \o DATA

\* Table.Path
TablePath(t, id) == pathPrefix(t) \o SLASH \o id \o DOTJSON

\* Table.IndicesPath
IndicesPath(t, id) == pathPrefix(t) \o SLASH \o id \o DOTINDICES

\* Index.PathPrefix
PathPrefix(i) == i.Table.Database \o SLASH \o i.Table.Name \o SLASH \o INDICES \o SLASH \o i.Field

\* the loop of Index.PathNoId: for len(fieldValue) < 2 { fieldValue = "_" + fieldValue }
RECURSIVE PadLeft(_)
PadLeft(fieldValue) == IF Len(fieldValue) < 2 THEN PadLeft(<<"_">> \o fieldValue) ELSE fieldValue

\* what a call returns that ended in a runtime panic (slice bounds out of range)
PanicPath == <<"panic">>

\* Index.PathNoId: the value is padded by its byte length, then lower-cased, then
\* sliced; fieldValue[:2] panics when lower-casing left fewer than two bytes
PathNoId(i, fieldValue) ==
    LET v == ToLower(PadLeft(fieldValue))
    IN IF Len(v) < 2 THEN PanicPath
       ELSE PathPrefix(i) \o SLASH \o SubSeq(v, 1, 2) \o SLASH \o v

\* Index.Path writing the file name as table___database___id
IndexPathTableFirst(i, fieldValue, entityId) ==
    IF PathNoId(i, fieldValue) = PanicPath THEN PanicPath
    ELSE PathNoId(i, fieldValue) \o SLASH \o i.Table.Name \o SEP \o i.Table.Database \o SEP \o entityId

\* Index.Path
IndexPath(i, fieldValue, entityId) ==
    LET database_table_id == i.Table.Database \o SEP \o i.Table.Name \o SEP \o entityId
        noId == PathNoId(i, fieldValue)
    IN IF noId = PanicPath THEN PanicPath ELSE noId \o SLASH \o database_table_id

\* NewTable: one Index per declared field, in the order declared; the Table an
\* Index holds is a copy, of which the model keeps the database and the name
NewTable(database, name, indices) ==
    [Database |-> database, Name |-> name,
     Indices |-> [k \in 1..Len(indices) |->
                    [Table |-> [Database |-> database, Name |-> name], Field |-> indices[k]]]]

\* the error of Table.GetIndex
UnknownIndex == "ADB-0033 no such index"

\* Table.GetIndex with the loop started at the second index
GetIndexSkipsFirst(t, field) ==
    LET hits == {k \in 2..Len(t.Indices) : t.Indices[k].Field = field}
    IN IF hits = {} THEN [index |-> <<>>, err |-> UnknownIndex]
       ELSE [index |-> <<t.Indices[CHOOSE k \in hits : \A j \in hits : k <= j]>>, err |-> "nil"]

\* Table.GetIndex: the first index of the field; the pointer returned is modelled
\* as a sequence, empty for nil
GetIndex(t, field) ==
    LET hits == {k \in 1..Len(t.Indices) : t.Indices[k].Field = field}
    IN IF hits = {} THEN [index |-> <<>>, err |-> UnknownIndex]
       ELSE [index |-> <<t.Indices[CHOOSE k \in hits : \A j \in hits : k <= j]>>, err |-> "nil"]

\* the error of Table.PathFromIndex
TableMismatch == "ADB-0032 no such database or table"

\* Table.PathFromIndex with the table name left unchecked
PathFromIndexDatabaseOnly(t, databaseTableIdTuple) ==
    IF databaseTableIdTuple.Database # t.Database
    THEN [path |-> <<>>, err |-> TableMismatch]
    ELSE [path |-> pathPrefix(t) \o SLASH \o databaseTableIdTuple.Id \o DOTJSON, err |-> "nil"]

\* Table.PathFromIndex
PathFromIndex(t, databaseTableIdTuple) ==
    IF databaseTableIdTuple.Database # t.Database \/ databaseTableIdTuple.Table # t.Name
    THEN [path |-> <<>>, err |-> TableMismatch]
    ELSE [path |-> pathPrefix(t) \o SLASH \o databaseTableIdTuple.Id \o DOTJSON, err |-> "nil"]

\* the error of DatabaseTableIdTupleFromPath (ADB-0034)
MalformedPath == [ok |-> FALSE, err |-> "ADB-0034"]

\* the parse without lines 53-58: the directory prefix is not stripped
DatabaseTableIdTupleFromWholePath(path) ==
    LET parts == SplitN(path, SEP, 3)
    IN IF Len(parts) # 3 THEN MalformedPath
       ELSE [ok |-> TRUE, Database |-> parts[1], Table |-> parts[2], Id |-> parts[3]]

\* the parse with strings.Split for strings.SplitN(.., 3): every separator splits
DatabaseTableIdTupleFromPathSplitAll(path) ==
    LET idx == LastIndex(path, SLASH)
        file == IF idx = 0 THEN path ELSE SubSeq(path, idx + 1, Len(path))
        parts == Split(file, SEP)
    IN IF Len(parts) # 3 THEN MalformedPath
       ELSE [ok |-> TRUE, Database |-> parts[1], Table |-> parts[2], Id |-> parts[3]]

\* DatabaseTableIdTupleFromPath
DatabaseTableIdTupleFromPath(path) ==
    LET idx == LastIndex(path, SLASH)
        file == IF idx = 0 THEN path ELSE SubSeq(path, idx + 1, Len(path))
        parts == SplitN(file, SEP, 3)
    IN IF Len(parts) # 3 THEN MalformedPath
       ELSE [ok |-> TRUE, Database |-> parts[1], Table |-> parts[2], Id |-> parts[3]]

(***************************************************************************)
(* The transaction log: Transaction and TransactionStep (package schema).  *)
(*                                                                         *)
(* tx is the Transaction (fields named as in the struct), now the wall     *)
(* clock read by time.Now(), in clock units of which UnitsPerMicro make a  *)
(* microsecond.  op, ret and val record the last call of the API and what  *)
(* it returned; log records, in order, the step built by every successful  *)
(* AddStep.  pc and pending hold the position of an AddStep call that is   *)
(* interleaved with the executor (SpecRace only).  input and out belong to *)
(* the addressing scheme's specification (SpecPath only).                  *)
(***************************************************************************)
VARIABLES tx, now, op, ret, val, log, pc, pending, input, out
vars == <<tx, now, op, ret, val, log, pc, pending, input, out>>

TIMESTAMP_ID_SEPARATOR == SEP
TRANSACTIONS_ROOT == <<"t", "r", "a", "n", "s", "a", "c", "t", "i", "o", "n", "s", "/">>
TX_ID == "Tx-Id"
LAST_MODIFIED == "Last-Modified"

\* the errors IsOk and AddStep return; NoError is Go's nil error
NoError == "nil"
TransactionAlreadyCommittedError == "Transaction is already committed"
TransactionAlreadyRolledBackError == "Transaction is already rolled back"
TransactionTimedOutError == "Transaction has timed out"
MarshalError == "json: unsupported type"
\* panic(...): the process aborts, nothing is returned
Panic == "panic"

\* time.Time.UnixMicro: whole microseconds, the finer part of the instant is dropped
UnixMicro(t) == t \div UnitsPerMicro

Digits == <<"0", "1", "2", "3", "4", "5", "6", "7", "8", "9">>

\* fmt.Sprintf("%d", n) for n >= 0
RECURSIVE FormatInt(_)
FormatInt(n) == IF n < 10 THEN <<Digits[n + 1]>> ELSE FormatInt(n \div 10) \o <<Digits[(n % 10) + 1]>>

\* entities handed to AddStep: a nil pointer, values json.Marshal encodes, and one
\* it rejects (a channel)
NilEntity == "nil"
Entities == {NilEntity, "E1", "E2", "Chan"}

\* json.Marshal(Entity)
Marshal(e) == IF e = "Chan" THEN [ok |-> FALSE, data |-> <<>>] ELSE [ok |-> TRUE, data |-> <<"json", e>>]

\* a nil *string
NilPtr == "nil"

\* uuid.New().String()
TxIds == {<<"u", "1">>}

\* NewTransaction taking the timeout itself for the deadline (now.Add left out)
NewTransactionDeadlineIsTimeout(n, timeout, id) ==
    [Id |-> id,
     Etag |-> "*",
     StartMicroseconds |-> UnixMicro(n),
     TimeoutMicroseconds |-> UnixMicro(timeout),
     Steps |-> <<>>,
     Cache |-> {},
     State |-> "InProgress"]

\* NewTransaction(timeout), called at instant n, id being the fresh uuid
NewTransaction(n, timeout, id) ==
    [Id |-> id,
     Etag |-> "*",
     StartMicroseconds |-> UnixMicro(n),
     TimeoutMicroseconds |-> UnixMicro(n + timeout),
     Steps |-> <<>>,
     Cache |-> {},
     State |-> "InProgress"]

\* IsExpired with the deadline instant itself counted as expired (>= for >)
IsExpiredAtDeadline(t, n) == UnixMicro(n) >= t.TimeoutMicroseconds

\* Transaction.IsExpired, time.Now() being n
IsExpired(t, n) == UnixMicro(n) > t.TimeoutMicroseconds

\* IsOk without the unknown-state branch: any other State is taken for InProgress
IsOkUnknownFallsThrough(t, n) ==
    IF t.State = "Committing" THEN TransactionAlreadyCommittedError
    ELSE IF t.State = "RollingBack" THEN TransactionAlreadyRolledBackError
    ELSE IF UnixMicro(n) > t.TimeoutMicroseconds THEN TransactionTimedOutError
    ELSE NoError

\* IsOk without the RollingBack branch: a rolled-back transaction is gated by
\* expiry alone
IsOkIgnoresRollingBack(t, n) ==
    IF t.State = "Committing" THEN TransactionAlreadyCommittedError
    ELSE IF t.State \notin {"InProgress", "RollingBack"} THEN Panic
    ELSE IF UnixMicro(n) > t.TimeoutMicroseconds THEN TransactionTimedOutError
    ELSE NoError

\* IsOk testing the deadline before the stored state
IsOkExpiryFirst(t, n) ==
    IF t.State \in {"InProgress", "Committing", "RollingBack"} /\ IsExpired(t, n)
    THEN TransactionTimedOutError
    ELSE IF t.State = "Committing" THEN TransactionAlreadyCommittedError
    ELSE IF t.State = "RollingBack" THEN TransactionAlreadyRolledBackError
    ELSE IF t.State # "InProgress" THEN Panic
    ELSE NoError

\* Transaction.IsOk, time.Now() being n
IsOk(t, n) ==
    IF t.State = "Committing" THEN TransactionAlreadyCommittedError
    ELSE IF t.State = "RollingBack" THEN TransactionAlreadyRolledBackError
    ELSE IF t.State # "InProgress" THEN Panic
    ELSE IF IsExpired(t, n) THEN TransactionTimedOutError
    ELSE NoError

\* GetPath with the deadline in the place of the start
GetPathOfDeadline(t) ==
    TRANSACTIONS_ROOT \o FormatInt(t.TimeoutMicroseconds) \o TIMESTAMP_ID_SEPARATOR \o t.Id

\* Transaction.GetPath
GetPath(t) == TRANSACTIONS_ROOT \o FormatInt(t.StartMicroseconds) \o TIMESTAMP_ID_SEPARATOR \o t.Id

\* strings.Trim(s, "/")
RECURSIVE Trim(_)
Trim(s) ==
    IF s = <<>> THEN s
    ELSE IF Head(s) = "/" THEN Trim(Tail(s))
    ELSE IF s[Len(s)] = "/" THEN Trim(SubSeq(s, 1, Len(s) - 1))
    ELSE s

\* the value of a decimal digit
DigitValue(ch) == (CHOOSE k \in 1..10 : Digits[k] = ch) - 1

\* strconv.ParseUint(s, 10, 64): digits only and at least one; the paths of the
\* model hold too few digits to leave the range of 64 bits
RECURSIVE ParseUintValue(_)
ParseUintValue(s) ==
    IF s = <<>> THEN 0 ELSE 10 * ParseUintValue(SubSeq(s, 1, Len(s) - 1)) + DigitValue(s[Len(s)])

ParseUint(s) ==
    IF s # <<>> /\ \A k \in 1..Len(s) : \E d \in 1..10 : Digits[d] = s[k]
    THEN [ok |-> TRUE, value |-> ParseUintValue(s)]
    ELSE [ok |-> FALSE, value |-> 0]

\* how a call of GetIdAndTimeoutMicrosFromPath ends that returns nothing
PanicOf(what) == [ok |-> FALSE, panic |-> what]

\* Transaction.GetIdAndTimeoutMicrosFromPath: the first len(TRANSACTIONS_ROOT)
\* bytes are cut off unread, and a shorter path cannot be sliced
GetIdAndTimeoutMicrosFromPath(path) ==
    IF Len(path) < Len(TRANSACTIONS_ROOT) THEN PanicOf("slice bounds out of range")
    ELSE LET filename == Trim(SubSeq(path, Len(TRANSACTIONS_ROOT) + 1, Len(path)))
             split == Split(filename, TIMESTAMP_ID_SEPARATOR)
         IN IF Len(split) # 2 THEN PanicOf("ADB-0015")
            ELSE IF ~ParseUint(split[1]).ok THEN PanicOf("ADB-0016")
            ELSE [ok |-> TRUE, id |-> split[2], timeout |-> ParseUint(split[1]).value]

\* AddStep's body putting the new step in front of the list instead of behind it
AddStepBodyPrepend(t, a, n) ==
    LET step == [Type |-> a.Type,
                 ContentType |-> a.ContentType,
                 Path |-> a.Path,
                 InitialETag |-> a.InitialETag,
                 InitialVersionId |-> "",
                 UserMetadata |-> [k \in {TX_ID, LAST_MODIFIED} |->
                                     IF k = TX_ID THEN t.Id ELSE FormatInt(UnixMicro(n))],
                 Data |-> IF a.Entity # NilEntity THEN Marshal(a.Entity).data ELSE <<>>,
                 Entity |-> a.Entity,
                 Executed |-> FALSE,
                 FinalETag |-> NilPtr,
                 FinalVersionId |-> NilPtr]
    IN IF a.Entity # NilEntity /\ ~Marshal(a.Entity).ok THEN [tx |-> t, ret |-> MarshalError]
       ELSE [tx |-> [t EXCEPT !.Steps = <<step>> \o t.Steps], ret |-> NoError]

\* AddStep's body without the test for a nil entity: json.Marshal(nil) is "null"
AddStepBodyMarshalsNil(t, a, n) ==
    LET m == IF a.Entity # NilEntity THEN Marshal(a.Entity) ELSE [ok |-> TRUE, data |-> <<"json", "null">>]
        step == [Type |-> a.Type,
                 ContentType |-> a.ContentType,
                 Path |-> a.Path,
                 InitialETag |-> a.InitialETag,
                 InitialVersionId |-> "",
                 UserMetadata |-> [k \in {TX_ID, LAST_MODIFIED} |->
                                     IF k = TX_ID THEN t.Id ELSE FormatInt(UnixMicro(n))],
                 Data |-> m.data,
                 Entity |-> a.Entity,
                 Executed |-> FALSE,
                 FinalETag |-> NilPtr,
                 FinalVersionId |-> NilPtr]
    IN IF ~m.ok THEN [tx |-> t, ret |-> MarshalError]
       ELSE [tx |-> [t EXCEPT !.Steps = Append(t.Steps, step)], ret |-> NoError]

\* AddStep's body queueing the step, without payload, although json.Marshal failed
AddStepBodyKeepsUnserializable(t, a, n) ==
    LET m == IF a.Entity # NilEntity THEN Marshal(a.Entity) ELSE [ok |-> TRUE, data |-> <<>>]
        step == [Type |-> a.Type,
                 ContentType |-> a.ContentType,
                 Path |-> a.Path,
                 InitialETag |-> a.InitialETag,
                 InitialVersionId |-> "",
                 UserMetadata |-> [k \in {TX_ID, LAST_MODIFIED} |->
                                     IF k = TX_ID THEN t.Id ELSE FormatInt(UnixMicro(n))],
                 Data |-> m.data,
                 Entity |-> a.Entity,
                 Executed |-> FALSE,
                 FinalETag |-> NilPtr,
                 FinalVersionId |-> NilPtr]
    IN [tx |-> [t EXCEPT !.Steps = Append(t.Steps, step)],
        ret |-> IF m.ok THEN NoError ELSE MarshalError]

\* the body of Transaction.AddStep after the IsOk gate (lines 105-133), time.Now() being n
AddStepBody(t, a, n) ==
    LET userMetadata == [k \in {TX_ID, LAST_MODIFIED} |->
                            IF k = TX_ID THEN t.Id ELSE FormatInt(UnixMicro(n))]
        m == IF a.Entity # NilEntity THEN Marshal(a.Entity) ELSE [ok |-> TRUE, data |-> <<>>]
        step == [Type |-> a.Type,
                 ContentType |-> a.ContentType,
                 Path |-> a.Path,
                 InitialETag |-> a.InitialETag,
                 InitialVersionId |-> "",
                 UserMetadata |-> userMetadata,
                 Data |-> m.data,
                 Entity |-> a.Entity,
                 Executed |-> FALSE,
                 FinalETag |-> NilPtr,
                 FinalVersionId |-> NilPtr]
    IN IF ~m.ok THEN [tx |-> t, ret |-> MarshalError]
       ELSE [tx |-> [t EXCEPT !.Steps = Append(t.Steps, step)], ret |-> NoError]

\* AddStep gating on State alone: an expired InProgress transaction still queues
AddStepStateGateOnly(t, a, n) ==
    IF t.State # "InProgress" THEN [tx |-> t, ret |-> IsOk(t, n)] ELSE AddStepBody(t, a, n)

\* AddStep recording the expiry it detects: a timed-out transaction is marked
\* RollingBack before the error is returned
AddStepMarksTimedOut(t, a, n) ==
    LET err == IsOk(t, n)
    IN IF err = TransactionTimedOutError THEN [tx |-> [t EXCEPT !.State = "RollingBack"], ret |-> err]
       ELSE IF err # NoError THEN [tx |-> t, ret |-> err]
       ELSE AddStepBody(t, a, n)

\* Transaction.AddStep, time.Now() being n
AddStep(t, a, n) ==
    LET err == IsOk(t, n)
    IN IF err # NoError THEN [tx |-> t, ret |-> err] ELSE AddStepBody(t, a, n)

\* TransactionStep.SetFinalETagAndVersionId
SetFinalETagAndVersionId(step, finalETag, finalVersionId) ==
    [step EXCEPT !.FinalETag = finalETag, !.FinalVersionId = finalVersionId]

(***************************************************************************)
(* The calls of the transaction log's API, one action per call.            *)
(***************************************************************************)
\* the arguments of the AddStep calls explored
StepArgs ==
    {[Type |-> "create", ContentType |-> "application/json", Path |-> "p1", InitialETag |-> "", Entity |-> "E1"],
     [Type |-> "update", ContentType |-> "application/json", Path |-> "p1", InitialETag |-> "etag0", Entity |-> "E2"],
     [Type |-> "delete", ContentType |-> "", Path |-> "p2", InitialETag |-> "etag0", Entity |-> NilEntity],
     [Type |-> "create", ContentType |-> "application/json", Path |-> "p2", InitialETag |-> "", Entity |-> "Chan"]}

NoArgs == [Type |-> "", ContentType |-> "", Path |-> "", InitialETag |-> "", Entity |-> NilEntity]

\* the (finalETag, finalVersionId) pairs the object store hands back
FinalValues == {<<"f1", "v1">>}

\* the process has not been aborted by a panic
Alive == ret # Panic

PathIdle == input = [kind |-> "none"] /\ out = [op |-> "none"]

\* the state after tx := NewTransaction(timeout) with a positive timeout
Init ==
    /\ \E n \in 0..(UnitsPerMicro - 1), timeout \in 1..MaxTimeout, id \in TxIds :
          /\ tx = NewTransaction(n, timeout, id)
          /\ now = n
    /\ op = "NewTransaction" /\ ret = NoError /\ val = <<>>
    /\ log = <<>> /\ pc = "idle" /\ pending = NoArgs
    /\ PathIdle

\* a wall clock that is also set back
TickOrSetBack ==
    /\ Alive
    /\ \/ now < MaxNow /\ now' = now + 1
       \/ now > 0 /\ now' = now - 1
    /\ UNCHANGED <<tx, op, ret, val, log, pc, pending, input, out>>

\* the wall clock advances
Tick ==
    /\ Alive /\ now < MaxNow
    /\ now' = now + 1
    /\ UNCHANGED <<tx, op, ret, val, log, pc, pending, input, out>>

\* tx.IsExpired()
CallIsExpired ==
    /\ Alive
    /\ op' = "IsExpired"
    /\ ret' = IF IsExpired(tx, now) THEN "true" ELSE "false"
    /\ UNCHANGED <<tx, now, val, log, pc, pending, input, out>>

\* tx.IsOk()
CallIsOk ==
    /\ Alive
    /\ op' = "IsOk"
    /\ ret' = IsOk(tx, now)
    /\ UNCHANGED <<tx, now, val, log, pc, pending, input, out>>

\* tx.GetPath()
CallGetPath ==
    /\ Alive
    /\ op' = "GetPath"
    /\ ret' = NoError
    /\ val' = GetPath(tx)
    /\ UNCHANGED <<tx, now, log, pc, pending, input, out>>

\* tx.AddStep(a.Type, a.ContentType, a.Path, a.InitialETag, a.Entity), run as a whole
CallAddStep(a) ==
    LET r == AddStep(tx, a, now)
    IN /\ Alive
       /\ Len(r.tx.Steps) <= MaxSteps
       /\ op' = "AddStep"
       /\ ret' = r.ret
       /\ tx' = r.tx
       /\ log' = IF r.ret = NoError THEN Append(log, a) ELSE log
       /\ UNCHANGED <<now, val, pc, pending, input, out>>

(***************************************************************************)
(* The external executor (commit / rollback driver), as the specification  *)
(* describes it: it applies the queued steps in order, marking each        *)
(* Executed and recording the store's final ETag and version id, and moves *)
(* State from InProgress to Committing or RollingBack.                     *)
(***************************************************************************)
ExecutorApplyStep(f) ==
    /\ Alive
    /\ \E i \in 1..Len(tx.Steps) :
          /\ ~tx.Steps[i].Executed
          /\ \A j \in 1..(i - 1) : tx.Steps[j].Executed
          /\ tx' = [tx EXCEPT !.Steps[i] =
                        SetFinalETagAndVersionId([tx.Steps[i] EXCEPT !.Executed = TRUE], f[1], f[2])]
    /\ UNCHANGED <<now, op, ret, val, log, pc, pending, input, out>>

ExecutorCommit ==
    /\ Alive
    /\ tx.State = "InProgress"
    /\ tx' = [tx EXCEPT !.State = "Committing"]
    /\ UNCHANGED <<now, op, ret, val, log, pc, pending, input, out>>

ExecutorRollback ==
    /\ Alive
    /\ tx.State = "InProgress"
    /\ tx' = [tx EXCEPT !.State = "RollingBack"]
    /\ UNCHANGED <<now, op, ret, val, log, pc, pending, input, out>>

Next ==
    \/ Tick
    \/ CallIsExpired
    \/ CallIsOk
    \/ CallGetPath
    \/ \E a \in StepArgs : CallAddStep(a)
    \/ \E f \in FinalValues : ExecutorApplyStep(f)
    \/ ExecutorCommit
    \/ ExecutorRollback

Spec == Init /\ [][Next]_vars

(***************************************************************************)
(* SpecLoaded: a Transaction whose State was not written by NewTransaction  *)
(* (the struct's fields are exported and json-tagged, so a stored or       *)
(* hand-built Transaction can hold any string).                            *)
(***************************************************************************)
StoredStates == {"InProgress", "Committing", "RollingBack", "Committed", ""}

InitLoaded ==
    /\ \E n \in 0..(UnitsPerMicro - 1), timeout \in 1..MaxTimeout, id \in TxIds, s \in StoredStates :
          /\ tx = [NewTransaction(n, timeout, id) EXCEPT !.State = s]
          /\ now = n
    /\ op = "load" /\ ret = NoError /\ val = <<>>
    /\ log = <<>> /\ pc = "idle" /\ pending = NoArgs
    /\ PathIdle

NextLoaded ==
    \/ Tick
    \/ CallIsExpired
    \/ CallIsOk
    \/ \E a \in StepArgs : CallAddStep(a)

SpecLoaded == InitLoaded /\ [][NextLoaded]_vars

(***************************************************************************)
(* SpecRace: a caller's AddStep running while the executor works on the    *)
(* same Transaction from another goroutine.  Nothing in AddStep           *)
(* synchronises the two, so the executor's writes can fall between the     *)
(* IsOk gate (line 101) and the append (line 131).                         *)
(***************************************************************************)
\* AddStep, lines 100-103: the gate
AddStepIsOk(a) ==
    LET err == IsOk(tx, now)
    IN /\ Alive /\ pc = "idle"
       /\ Len(tx.Steps) < MaxSteps
       /\ IF err # NoError
          THEN /\ op' = "AddStep" /\ ret' = err
               /\ UNCHANGED <<pc, pending>>
          ELSE /\ pc' = "checked" /\ pending' = a
               /\ UNCHANGED <<op, ret>>
       /\ UNCHANGED <<tx, now, val, log, input, out>>

\* AddStep, lines 105-133: the rest of the call
AddStepAppend ==
    LET r == AddStepBody(tx, pending, now)
    IN /\ Alive /\ pc = "checked"
       /\ op' = "AddStep" /\ ret' = r.ret
       /\ tx' = r.tx
       /\ log' = IF r.ret = NoError THEN Append(log, pending) ELSE log
       /\ pc' = "idle" /\ pending' = NoArgs
       /\ UNCHANGED <<now, val, input, out>>

NextRace ==
    \/ Tick
    \/ \E a \in StepArgs : AddStepIsOk(a)
    \/ AddStepAppend
    \/ \E f \in FinalValues : ExecutorApplyStep(f)
    \/ ExecutorRollback

SpecRace == Init /\ [][NextRace]_vars

(***************************************************************************)
(* TransactionStep.SetFinalETagAndVersionId is an exported method: besides  *)
(* the executor's one call per applied step, any holder of a step can call  *)
(* it, at any time and with any two pointers, nil included.                 *)
(***************************************************************************)
\* the (finalETag, finalVersionId) pairs handed to SetFinalETagAndVersionId
SetFinalValues == FinalValues \cup {<<"f2", "v2">>, <<NilPtr, NilPtr>>}

\* tx.Steps[i].SetFinalETagAndVersionId(f[1], f[2])
CallSetFinalETagAndVersionId(i, f) ==
    /\ Alive
    /\ i \in 1..Len(tx.Steps)
    /\ tx' = [tx EXCEPT !.Steps[i] = SetFinalETagAndVersionId(tx.Steps[i], f[1], f[2])]
    /\ op' = "SetFinalETagAndVersionId"
    /\ ret' = NoError
    /\ UNCHANGED <<now, val, log, pc, pending, input, out>>

NextFinal ==
    \/ \E a \in StepArgs : CallAddStep(a)
    \/ \E f \in FinalValues : ExecutorApplyStep(f)
    \/ \E i \in 1..MaxSteps, f \in SetFinalValues : CallSetFinalETagAndVersionId(i, f)

SpecFinal == Init /\ [][NextFinal]_vars

(***************************************************************************)
(* Properties of the transaction log.                                      *)
(***************************************************************************)
IsOkErrors ==
    {TransactionAlreadyCommittedError, TransactionAlreadyRolledBackError, TransactionTimedOutError}

\* C1: whenever IsOk() would return one of its three errors, AddStep returns that
\* same error and does nothing else: the number of steps, every existing step,
\* State, Etag and Cache are as before.
C1_AddStepGate ==
    [][\A a \in StepArgs :
          (CallAddStep(a) /\ IsOk(tx, now) \in IsOkErrors)
             => /\ ret' = IsOk(tx, now)
                /\ Len(tx'.Steps) = Len(tx.Steps)
                /\ \A i \in 1..Len(tx.Steps) : tx'.Steps[i] = tx.Steps[i]
                /\ tx'.State = tx.State
                /\ tx'.Etag = tx.Etag
                /\ tx'.Cache = tx.Cache]_vars

\* an AddStep refused for expiry on a transaction that already holds steps
C1_Witness ==
    /\ op = "AddStep" /\ ret = TransactionTimedOutError
    /\ IsOk(tx, now) = TransactionTimedOutError
    /\ Len(tx.Steps) > 0

KnownStates == {"InProgress", "Committing", "RollingBack"}

\* C2: IsOk() is a total case analysis on (State, expired): no error iff State is
\* InProgress and the deadline has not passed, AlreadyCommitted for Committing,
\* AlreadyRolledBack for RollingBack, TimedOut for InProgress and expired, and for
\* any other State the process aborts: nothing is returned and nothing runs after.
C2_IsOkCases ==
    /\ [][CallIsOk =>
            /\ (ret' = NoError) <=> (tx.State = "InProgress" /\ ~(UnixMicro(now) > tx.TimeoutMicroseconds))
            /\ tx.State = "Committing" => ret' = TransactionAlreadyCommittedError
            /\ tx.State = "RollingBack" => ret' = TransactionAlreadyRolledBackError
            /\ (tx.State = "InProgress" /\ UnixMicro(now) > tx.TimeoutMicroseconds)
                  => ret' = TransactionTimedOutError
            /\ tx.State \notin KnownStates => ret' = Panic]_vars
    /\ [][ret # Panic]_vars

\* IsOk() met a State outside the three known ones and aborted
C2_Witness == op = "IsOk" /\ ret = Panic /\ tx.State = "Committed"

\* C3: expiry is derived, not stored: on an InProgress transaction IsOk() returns
\* TimedOut exactly when the clock's microsecond reading is strictly greater than
\* TimeoutMicroseconds (equal is still OK), and neither the passing of time nor
\* IsOk()/IsExpired() changes State.
C3_ExpiryDerived ==
    /\ [][(CallIsOk /\ tx.State = "InProgress")
             => /\ (ret' = TransactionTimedOutError) <=> (UnixMicro(now) > tx.TimeoutMicroseconds)
                /\ (UnixMicro(now) = tx.TimeoutMicroseconds) => ret' = NoError]_vars
    /\ [][CallIsExpired => ((ret' = "true") <=> (UnixMicro(now) > tx.TimeoutMicroseconds))]_vars
    /\ [][(Tick \/ CallIsOk \/ CallIsExpired) => tx'.State = tx.State]_vars

\* IsOk() has reported TimedOut and State still reads InProgress
C3_Witness ==
    /\ op = "IsOk" /\ ret = TransactionTimedOutError
    /\ tx.State = "InProgress"
    /\ UnixMicro(now) = tx.TimeoutMicroseconds + 1

\* the fields of a step that AddStep takes from its arguments
StepMatches(step, a) ==
    /\ step.Type = a.Type
    /\ step.ContentType = a.ContentType
    /\ step.Path = a.Path
    /\ step.InitialETag = a.InitialETag
    /\ step.Entity = a.Entity

\* C4: the step log is append-only and order-preserving: the step of the Nth
\* successful AddStep is at index N-1 (N here, counting from 1), and no AddStep,
\* successful or not, removes, reorders or modifies an earlier step.
C4_AppendOnly ==
    /\ [](/\ Len(tx.Steps) = Len(log)
          /\ \A i \in 1..Len(log) : StepMatches(tx.Steps[i], log[i]))
    /\ [][\A a \in StepArgs :
             CallAddStep(a)
                => /\ Len(tx'.Steps) >= Len(tx.Steps)
                   /\ \A i \in 1..Len(tx.Steps) : tx'.Steps[i] = tx.Steps[i]]_vars

\* two different steps are queued and a later AddStep was refused
C4_Witness ==
    /\ Len(tx.Steps) = 2
    /\ tx.Steps[1].Type = "update" /\ tx.Steps[2].Type = "delete"
    /\ op = "AddStep" /\ ret # NoError

DbNames ==
    {<<"a">>, <<"a", "_">>, <<"a", "/", "b">>, <<"a", "_", "_", "_", "b">>, <<"_", "a">>, <<>>}
TableNames ==
    {<<"t">>, <<"t", "_">>, <<"_", "t">>, <<"t", "/", "u">>, <<"t", "_", "_", "_", "u">>}
Ids ==
    {<<"1">>, <<"_", "1">>, <<"1", "/", "2">>, <<"1", "_", "_", "_", "2">>,
     <<"_", "_", "_", "_", "_", "_">>, <<"1", "_">>}
FieldValues ==
    {<<>>, <<"a">>, <<"_", "a">>, <<"A", "B">>, <<"a", "b">>, <<"a", "/", "b">>,
     <<"a", "_", "_", "_", "b">>, <<"k">>, KELVIN}
Fields == {<<"f">>, <<"f", "/", "g">>}

Identities ==
    [Database : DbNames, Name : TableNames, Field : Fields, Value : FieldValues, Id : Ids]

\* the identities compared with one another
PairIdentities ==
    [Database : {<<"a">>, <<"b">>, <<"a", "/", "b">>},
     Name : {<<"t">>, <<"b", "/", "t">>},
     Field : Fields,
     Value : {<<"a">>, <<"_", "a">>, <<"A">>, <<"a", "b">>, <<"a", "/", "b">>, KELVIN},
     Id : {<<"1">>, <<"2">>}]

\* raw paths: every concatenation of at most MaxTokens tokens
Tokens == {<<"a">>, <<"_">>, SEP, SLASH}

RECURSIVE RawPaths(_)
RawPaths(n) ==
    IF n = 0 THEN {<<>>}
    ELSE LET shorter == RawPaths(n - 1) IN shorter \cup {p \o t : p \in shorter, t \in Tokens}

\* the lists of at most n declared field names, repetitions included
RECURSIVE FieldLists(_)
FieldLists(n) ==
    IF n = 0 THEN {<<>>}
    ELSE LET shorter == FieldLists(n - 1) IN shorter \cup {l \o <<f>> : l \in shorter, f \in Fields}

\* the field names looked up
LookupFields == Fields \cup {<<"h">>, <<>>}

\* the instants at which the transactions of the path round trip are created
TxInstants == {0, 1, 19, 20, 21, 246}

\* uuid.New().String(): hexadecimal digits and "-"
Uuids == {<<"7", "a">>, <<"a", "-", "7">>}

\* raw transaction-log paths: "transactions/" and at most n tokens
TxTokens == {<<"7">>, <<"0">>, <<"a">>, TIMESTAMP_ID_SEPARATOR, SLASH}

RECURSIVE RawTxTails(_)
RawTxTails(n) ==
    IF n = 0 THEN {<<>>}
    ELSE LET shorter == RawTxTails(n - 1) IN shorter \cup {p \o t : p \in shorter, t \in TxTokens}

RawTxPaths(n) == {TRANSACTIONS_ROOT \o p : p \in RawTxTails(n)}

\* paths shorter than "transactions/"
ShortPaths == {SubSeq(TRANSACTIONS_ROOT, 1, k) : k \in 0..(Len(TRANSACTIONS_ROOT) - 1)}

\* nothing is returned: the call before it panicked
Aborted == [ok |-> FALSE, err |-> "panic"]

TableOf(x) == [Database |-> x.Database, Name |-> x.Name]
IndexOf(x) == [Table |-> TableOf(x), Field |-> x.Field]

\* the three object-store keys of an identity
KeysOf(x) ==
    [record |-> TablePath(TableOf(x), x.Id),
     indices |-> IndicesPath(TableOf(x), x.Id),
     index |-> IndexPath(IndexOf(x), x.Value, x.Id)]

TxIdle ==
    /\ tx = NewTransaction(0, 1, <<"u", "1">>) /\ now = 0
    /\ op = "none" /\ ret = NoError /\ val = <<>>
    /\ log = <<>> /\ pc = "idle" /\ pending = NoArgs

InitPath ==
    /\ TxIdle
    /\ \/ \E x \in Identities : input = [kind |-> "one", x |-> x]
       \/ \E a \in PairIdentities, b \in PairIdentities : input = [kind |-> "two", a |-> a, b |-> b]
       \/ \E p \in RawPaths(MaxTokens) : input = [kind |-> "raw", path |-> p]
       \/ \E n \in TxInstants, timeout \in 1..MaxTimeout, id \in Uuids :
             input = [kind |-> "tx", tx |-> NewTransaction(n, timeout, id)]
       \/ \E p \in RawTxPaths(MaxTokens) \cup ShortPaths : input = [kind |-> "txraw", path |-> p]
       \/ \E d \in {<<"a">>, <<"b">>}, l \in FieldLists(MaxIndices), f \in LookupFields :
             input = [kind |-> "table", database |-> d, name |-> <<"t">>, indices |-> l, field |-> f]
    /\ out = [op |-> "none"]

\* DatabaseTableIdTupleFromPath(table.Path(id))
RoundTripTablePath ==
    /\ input.kind = "one" /\ out.op # "Table.Path"
    /\ LET key == TablePath(TableOf(input.x), input.x.Id)
       IN out' = [op |-> "Table.Path", key |-> key, parsed |-> DatabaseTableIdTupleFromPath(key)]
    /\ UNCHANGED <<tx, now, op, ret, val, log, pc, pending, input>>

\* DatabaseTableIdTupleFromPath(index.Path(fieldValue, id))
RoundTripIndexPath ==
    /\ input.kind = "one" /\ out.op # "Index.Path"
    /\ LET key == IndexPath(IndexOf(input.x), input.x.Value, input.x.Id)
       IN out' = [op |-> "Index.Path", key |-> key,
                  parsed |-> IF key = PanicPath THEN Aborted ELSE DatabaseTableIdTupleFromPath(key)]
    /\ UNCHANGED <<tx, now, op, ret, val, log, pc, pending, input>>

\* index.PathNoId(fieldValue)
CallPathNoId ==
    /\ input.kind = "one" /\ out.op # "PathNoId"
    /\ out' = [op |-> "PathNoId", key |-> PathNoId(IndexOf(input.x), input.x.Value)]
    /\ UNCHANGED <<tx, now, op, ret, val, log, pc, pending, input>>

\* DatabaseTableIdTupleFromPath(path)
ParsePath ==
    /\ input.kind = "raw" /\ out.op # "parse"
    /\ out' = [op |-> "parse", key |-> input.path, parsed |-> DatabaseTableIdTupleFromPath(input.path)]
    /\ UNCHANGED <<tx, now, op, ret, val, log, pc, pending, input>>

\* Table.Path, Table.IndicesPath and Index.Path of both identities
ComputeKeys ==
    /\ input.kind = "two" /\ out.op # "keys"
    /\ out' = [op |-> "keys", a |-> KeysOf(input.a), b |-> KeysOf(input.b)]
    /\ UNCHANGED <<tx, now, op, ret, val, log, pc, pending, input>>

\* table.PathFromIndex(tuple): the table of the one identity, the tuple of the other
CallPathFromIndex ==
    /\ input.kind = "two" /\ out.op # "PathFromIndex"
    /\ LET r == PathFromIndex(TableOf(input.a),
                              [Database |-> input.b.Database, Table |-> input.b.Name, Id |-> input.b.Id])
       IN out' = [op |-> "PathFromIndex", path |-> r.path, err |-> r.err]
    /\ UNCHANGED <<tx, now, op, ret, val, log, pc, pending, input>>

\* NewTable(database, name, indices).GetIndex(field)
CallGetIndex ==
    /\ input.kind = "table" /\ out.op # "GetIndex"
    /\ LET r == GetIndex(NewTable(input.database, input.name, input.indices), input.field)
       IN out' = [op |-> "GetIndex", index |-> r.index, err |-> r.err]
    /\ UNCHANGED <<tx, now, op, ret, val, log, pc, pending, input>>

\* tx.GetIdAndTimeoutMicrosFromPath(tx.GetPath())
RoundTripTxPath ==
    /\ input.kind = "tx" /\ out.op # "Transaction.GetPath"
    /\ LET key == GetPath(input.tx)
       IN out' = [op |-> "Transaction.GetPath", key |-> key,
                  parsed |-> GetIdAndTimeoutMicrosFromPath(key)]
    /\ UNCHANGED <<tx, now, op, ret, val, log, pc, pending, input>>

\* tx.GetIdAndTimeoutMicrosFromPath(path)
ParseTxPath ==
    /\ input.kind = "txraw" /\ out.op # "Transaction.parse"
    /\ out' = [op |-> "Transaction.parse", key |-> input.path,
               parsed |-> GetIdAndTimeoutMicrosFromPath(input.path)]
    /\ UNCHANGED <<tx, now, op, ret, val, log, pc, pending, input>>

NextPath ==
    \/ RoundTripTxPath
    \/ ParseTxPath
    \/ CallGetIndex
    \/ CallPathFromIndex
    \/ RoundTripTablePath
    \/ RoundTripIndexPath
    \/ CallPathNoId
    \/ ParsePath
    \/ ComputeKeys

SpecPath == InitPath /\ [][NextPath]_vars

(***************************************************************************)
(* Properties of the addressing scheme.                                    *)
(***************************************************************************)
NoSlash(s) == \A i \in 1..Len(s) : s[i] # "/"

\* sub occurs in s
Contains(s, sub) == \E i \in 1..(Len(s) - Len(sub) + 1) : \A j \in 1..Len(sub) : s[i + j - 1] = sub[j]

\* the text of s after its last "/" (all of s when it has none)
AfterLastSlash(s) ==
    LET at == {i \in 1..Len(s) : s[i] = "/"}
    IN IF at = {} THEN s ELSE SubSeq(s, (CHOOSE i \in at : \A j \in at : j <= i) + 1, Len(s))

\* the parts from the k-th on, joined again by "___"
RECURSIVE JoinFrom(_, _)
JoinFrom(parts, k) ==
    IF k >= Len(parts) THEN parts[k] ELSE parts[k] \o SEP \o JoinFrom(parts, k + 1)

\* the tuple DatabaseTableIdTupleFromPath returns for (database, table, id)
Tuple(database, table, id) == [ok |-> TRUE, Database |-> database, Table |-> table, Id |-> id]

\* a name after which the separator "___" is found where it was written: the name
\* holds no "/", no "___", and does not end in "_"
CleanName(s) == NoSlash(s) /\ ~Contains(s \o <<"_", "_">>, SEP)

\* C7 (as stated): for every table, id and fieldValue the index path parses back to
\* exactly (database, table, id).
C7_IndexRoundTripAlways ==
    out.op = "Index.Path" => out.parsed = Tuple(input.x.Database, input.x.Name, input.x.Id)

\* Index.Path returns a key for fieldValue v (it does not panic)
Returns(v) == Len(ToLower(PadLeft(v))) >= 2

\* C7 (amended): Index.Path returns a key unless lower-casing leaves the padded
\* fieldValue shorter than two bytes, and then it panics and nothing is parsed;
\* a returned key parses back to exactly (database, table, id) if and only if
\* database and table hold no "/", no "___" and do not end in "_", and id holds
\* no "/"; and what is parsed is the same for every fieldValue a key is
\* returned for.
C7_IndexRoundTrip ==
    out.op = "Index.Path" =>
        /\ (out.key = PanicPath) <=> ~Returns(input.x.Value)
        /\ out.key = PanicPath => out.parsed = Aborted
        /\ out.key # PanicPath =>
              /\ (out.parsed = Tuple(input.x.Database, input.x.Name, input.x.Id))
                    <=> (CleanName(input.x.Database) /\ CleanName(input.x.Name) /\ NoSlash(input.x.Id))
              /\ \A v \in {w \in FieldValues : Returns(w)} :
                    DatabaseTableIdTupleFromPath(IndexPath(IndexOf(input.x), v, input.x.Id)) = out.parsed

\* an index path whose field value holds a "/" and whose id holds a "___" parsed
\* back to its identity
C7_Witness ==
    /\ out.op = "Index.Path"
    /\ out.parsed = Tuple(input.x.Database, input.x.Name, input.x.Id)
    /\ input.x.Value = <<"a", "/", "b">>
    /\ input.x.Id = <<"1", "_", "_", "_", "2">>
    /\ input.x.Database = <<"_", "a">>

\* C8 (as stated): the record path Table.Path(id) parses back to (database, table, id).
C8_TableRoundTrip ==
    out.op = "Table.Path" => out.parsed = Tuple(input.x.Database, input.x.Name, input.x.Id)

\* C8 (amended): the record path never parses back to (database, table, id): its
\* file name is "{id}.json", so the parse fails with MalformedPath unless the id
\* itself holds two "___" after its last "/", and then the tuple is cut out of
\* "{id}.json" alone.
C8_TablePathIsNoIndexEntry ==
    out.op = "Table.Path" =>
        LET file == AfterLastSlash(input.x.Id) \o DOTJSON
            seps == Len(Split(file, SEP)) - 1
        IN /\ out.parsed # Tuple(input.x.Database, input.x.Name, input.x.Id)
           /\ seps < 2 => out.parsed = MalformedPath
           /\ seps >= 2 => /\ out.parsed.ok
                           /\ out.parsed.Database \o SEP \o out.parsed.Table \o SEP \o out.parsed.Id = file

\* the record path of a plain (database, table, id) was refused as malformed
C8_Witness ==
    /\ out.op = "Table.Path"
    /\ input.x.Database = <<"a">> /\ input.x.Name = <<"t">> /\ input.x.Id = <<"1">>
    /\ out.parsed = MalformedPath

\* C9 (as stated): the file name after the last "/" is split on "___" and the parse
\* succeeds only with exactly three parts; fewer and more both fail.
C9_ExactlyThreeParts ==
    out.op = "parse" =>
        (out.parsed.ok <=> Len(Split(AfterLastSlash(input.path), SEP)) = 3)

\* C9 (amended): the file name after the last "/" is split on "___" into at most
\* three parts; fewer than three parts fail with MalformedPath, three or more
\* succeed, the third part of the result being everything after the second
\* separator, further separators included.
C9_AtLeastThreeParts ==
    out.op = "parse" =>
        LET parts == Split(AfterLastSlash(input.path), SEP)
        IN /\ Len(parts) < 3 => out.parsed = MalformedPath
           /\ Len(parts) >= 3 => out.parsed = Tuple(parts[1], parts[2], JoinFrom(parts, 3))

\* a file name with three separators, behind a directory, was parsed
C9_Witness ==
    /\ out.op = "parse"
    /\ Len(input.path) > Len(AfterLastSlash(input.path))
    /\ Len(Split(AfterLastSlash(input.path), SEP)) = 4
    /\ out.parsed.ok /\ Contains(out.parsed.Id, SEP)

\* the logical identities of the two inputs
TableId(x) == <<x.Database, x.Name, x.Id>>
EntryId(x) == <<x.Database, x.Name, x.Field, ToLower(x.Value), x.Id>>
PaddedEntryId(x) == <<x.Database, x.Name, x.Field, ToLower(PadLeft(x.Value)), x.Id>>
AllKeys(k) == {k.record, k.indices, k.index} \ {PanicPath}
SlashFree(x) == NoSlash(x.Database) /\ NoSlash(x.Name) /\ NoSlash(x.Field) /\ NoSlash(x.Id)

\* C10 (as stated): distinct (database, table, id) give distinct Table.Path and
\* Table.IndicesPath keys, distinct (database, table, field, lower-cased
\* fieldValue, id) give distinct Index.Path keys, no record key equals an index
\* key, and tables of the same name in different databases share no key.
C10_CollisionFree ==
    out.op = "keys" =>
        /\ TableId(input.a) # TableId(input.b)
              => out.a.record # out.b.record /\ out.a.indices # out.b.indices
        /\ EntryId(input.a) # EntryId(input.b) => out.a.index # out.b.index
        /\ out.a.record # out.b.index /\ out.a.record # out.a.index
        /\ (input.a.Name = input.b.Name /\ input.a.Database # input.b.Database)
              => AllKeys(out.a) \cap AllKeys(out.b) = {}

\* C10 (amended): for databases, tables, fields and ids that hold no "/", distinct
\* (database, table, id) give distinct Table.Path and Table.IndicesPath keys,
\* distinct (database, table, field, fieldValue left-padded with "_" to two bytes
\* and lower-cased, id) give distinct Index.Path keys wherever Index.Path returns
\* a key (it panics when lower-casing leaves fewer than two bytes), no record key
\* equals an index key, and tables of the same name in different databases share
\* no key.
C10_CollisionFreeWithoutSlashes ==
    (out.op = "keys" /\ SlashFree(input.a) /\ SlashFree(input.b)) =>
        /\ TableId(input.a) # TableId(input.b)
              => out.a.record # out.b.record /\ out.a.indices # out.b.indices
        /\ (out.a.index = PanicPath) <=> ~Returns(input.a.Value)
        /\ (PaddedEntryId(input.a) # PaddedEntryId(input.b) /\ out.a.index # PanicPath)
              => out.a.index # out.b.index
        /\ out.a.record # out.b.index /\ out.a.record # out.a.index
        /\ (input.a.Name = input.b.Name /\ input.a.Database # input.b.Database)
              => AllKeys(out.a) \cap AllKeys(out.b) = {}

\* the keys of one table name in two databases were computed
C10_Witness ==
    /\ out.op = "keys"
    /\ SlashFree(input.a) /\ SlashFree(input.b)
    /\ input.a.Name = input.b.Name /\ input.a.Database # input.b.Database
    /\ input.a.Id = input.b.Id /\ input.a.Value = input.b.Value
    /\ AllKeys(out.a) \cap AllKeys(out.b) = {}

\* the characters (runes) of s, each as its bytes
RECURSIVE Runes(_)
Runes(s) ==
    IF s = <<>> THEN <<>>
    ELSE IF Len(s) >= 3 /\ SubSeq(s, 1, 3) = KELVIN THEN <<KELVIN>> \o Runes(SubSeq(s, 4, Len(s)))
    ELSE <<(<<s[1]>>)>> \o Runes(Tail(s))

\* s left-padded with "_" to two characters
RECURSIVE PadChars(_)
PadChars(s) == IF Len(Runes(s)) < 2 THEN PadChars(<<"_">> \o s) ELSE s

\* the first two characters of s, which has at least two
FirstTwoChars(s) == Runes(s)[1] \o Runes(s)[2]

\* the values that differ from v in case only
CaseVariants(v) == {w \in FieldValues : ToLower(w) = ToLower(v)}

\* C11 (as stated): PathNoId(v) equals PathNoId of every case variant of v; a
\* value shorter than two characters gives the path of the value left-padded
\* with "_" to two characters; and the path is always "{prefix}/{s}/{value}"
\* where value is the lower-cased padded value and s its first two characters.
C11_PathNoId ==
    out.op = "PathNoId" =>
        LET i == IndexOf(input.x)
            value == ToLower(PadChars(input.x.Value))
        IN /\ \A w \in CaseVariants(input.x.Value) : PathNoId(i, w) = out.key
           /\ Len(Runes(input.x.Value)) < 2 => out.key = PathNoId(i, PadChars(input.x.Value))
           /\ out.key = PathPrefix(i) \o SLASH \o FirstTwoChars(value) \o SLASH \o value

\* C12: PathFromIndex returns Table.Path(tuple.Id) and no error if and only if the
\* tuple's database is the table's database and the tuple's table is the table's
\* name; in every other case it returns TableMismatch and no path.
C12_PathFromIndex ==
    out.op = "PathFromIndex" =>
        IF input.b.Database = input.a.Database /\ input.b.Name = input.a.Name
        THEN out.err = "nil" /\ out.path = TablePath(TableOf(input.a), input.b.Id)
        ELSE out.err = TableMismatch /\ out.path = <<>>

\* a tuple of the table's database but of another table was refused
C12_Witness ==
    /\ out.op = "PathFromIndex"
    /\ input.b.Database = input.a.Database /\ input.b.Name # input.a.Name
    /\ out.err = TableMismatch /\ out.path = <<>>

\* the field is in the declared list
Declared(field, indices) == \E k \in 1..Len(indices) : indices[k] = field

\* C13: on a table built by NewTable, GetIndex(field) returns no error and one
\* index, whose Field is field and whose Table has the table's database and
\* name, exactly when field is in the declared list; otherwise it returns
\* UnknownIndex and no index; it never returns more than one index and its only
\* outcomes are these two.
C13_GetIndex ==
    out.op = "GetIndex" =>
        /\ Len(out.index) <= 1
        /\ out.err \in {"nil", UnknownIndex}
        /\ IF Declared(input.field, input.indices)
           THEN /\ out.err = "nil"
                /\ Len(out.index) = 1
                /\ out.index[1].Field = input.field
                /\ out.index[1].Table = [Database |-> input.database, Name |-> input.name]
           ELSE out.err = UnknownIndex /\ out.index = <<>>

\* a field declared twice was looked up and one index came back
C13_Witness ==
    /\ out.op = "GetIndex"
    /\ input.indices = <<input.field, input.field>>
    /\ out.err = "nil" /\ Len(out.index) = 1 /\ out.index[1].Field = input.field

\* s is an unsigned decimal number
IsDecimal(s) == s # <<>> /\ \A k \in 1..Len(s) : s[k] \in {Digits[d] : d \in 1..10}

\* the number the digits of s write, read from the left
RECURSIVE DecimalValue(_, _)
DecimalValue(s, acc) ==
    IF s = <<>> THEN acc
    ELSE DecimalValue(Tail(s), 10 * acc + (CHOOSE d \in 0..9 : Digits[d + 1] = Head(s)))

\* s without the "/" at its two ends
Trimmed(s) ==
    LET keep == {k \in 1..Len(s) : s[k] # "/"}
    IN IF keep = {} THEN <<>>
       ELSE SubSeq(s, CHOOSE k \in keep : \A j \in keep : k <= j, CHOOSE k \in keep : \A j \in keep : k >= j)

\* s is a decimal number, "___", and a rest that holds no further "___"
TwoParts(s) ==
    \E k \in 1..Len(s) :
        /\ IsDecimal(SubSeq(s, 1, k))
        /\ k + 3 <= Len(s)
        /\ SubSeq(s, k + 1, k + 3) = TIMESTAMP_ID_SEPARATOR
        /\ ~Contains(SubSeq(s, k + 4, Len(s)), TIMESTAMP_ID_SEPARATOR)

\* C14: GetPath() is "transactions/{StartMicroseconds}___{Id}" and parsing it
\* returns (Id, StartMicroseconds); a path whose text after "transactions/",
\* trimmed of "/", is not an unsigned decimal, "___" and one more part is a fatal
\* abort and no returned value, and any other path returns its two parts.
C14_TxPathRoundTrip ==
    /\ out.op = "Transaction.GetPath" =>
          /\ out.key = TRANSACTIONS_ROOT \o FormatInt(input.tx.StartMicroseconds)
                          \o TIMESTAMP_ID_SEPARATOR \o input.tx.Id
          /\ out.parsed = [ok |-> TRUE, id |-> input.tx.Id, timeout |-> input.tx.StartMicroseconds]
    /\ out.op = "Transaction.parse" =>
          LET rest == Trimmed(SubSeq(input.path, Len(TRANSACTIONS_ROOT) + 1, Len(input.path)))
          IN IF Len(input.path) >= Len(TRANSACTIONS_ROOT) /\ TwoParts(rest)
             THEN LET k == CHOOSE k \in 1..Len(rest) : IsDecimal(SubSeq(rest, 1, k)) /\ rest[k + 1] = "_"
                  IN out.parsed = [ok |-> TRUE, id |-> SubSeq(rest, k + 4, Len(rest)),
                                   timeout |-> DecimalValue(SubSeq(rest, 1, k), 0)]
             ELSE ~out.parsed.ok

\* the path of a transaction started at a time of several digits was parsed back
C14_Witness ==
    /\ out.op = "Transaction.GetPath"
    /\ input.tx.StartMicroseconds >= 10
    /\ input.tx.StartMicroseconds # input.tx.TimeoutMicroseconds
    /\ out.parsed = [ok |-> TRUE, id |-> input.tx.Id, timeout |-> input.tx.StartMicroseconds]

\* the fields of a step that are fixed when it is appended
Immutable(step) ==
    <<step.Type, step.ContentType, step.Path, step.InitialETag, step.Data, step.Entity>>

\* C15 (as stated): in every step of a behaviour the Type, ContentType, Path,
\* InitialETag and payload of each appended step stay as they are; Final* values
\* once recorded are not overwritten by a further SetFinalETagAndVersionId; and
\* Final* values are recorded only on a step whose Executed is true.
C15_FinalWrittenOnce ==
    [][\A i \in 1..Len(tx.Steps) :
          /\ Immutable(tx'.Steps[i]) = Immutable(tx.Steps[i])
          /\ (tx.Steps[i].FinalETag # NilPtr \/ tx.Steps[i].FinalVersionId # NilPtr)
                => /\ tx'.Steps[i].FinalETag = tx.Steps[i].FinalETag
                   /\ tx'.Steps[i].FinalVersionId = tx.Steps[i].FinalVersionId
          /\ (tx'.Steps[i].FinalETag # NilPtr \/ tx'.Steps[i].FinalVersionId # NilPtr)
                => tx'.Steps[i].Executed]_vars

\* the part of C15 about the fields fixed at creation
C15_ImmutableFields ==
    [][\A i \in 1..Len(tx.Steps) : Immutable(tx'.Steps[i]) = Immutable(tx.Steps[i])]_vars

\* the AddStep arguments whose entity json.Marshal rejects, and the others
Unserializable == {a \in StepArgs : a.Entity # NilEntity /\ ~Marshal(a.Entity).ok}
Serializable == StepArgs \ Unserializable

\* C16: AddStep with an unserializable entity on a transaction IsOk() accepts
\* returns the serialization error and leaves the transaction as it was (no step
\* appended, State InProgress), and an AddStep with a serializable entity called
\* next succeeds and appends its step.
C16_SerializationFailure ==
    [][\A a \in Unserializable :
          (CallAddStep(a) /\ IsOk(tx, now) = NoError)
             => /\ ret' = MarshalError
                /\ tx' = tx
                /\ tx'.State = "InProgress"
                /\ \A b \in Serializable :
                      LET r == AddStep(tx', b, now')
                      IN /\ r.ret = NoError
                         /\ Len(r.tx.Steps) = Len(tx.Steps) + 1
                         /\ StepMatches(r.tx.Steps[Len(r.tx.Steps)], b)]_vars

\* an AddStep was refused for its entity on a transaction that holds a step and
\* is still within its deadline
C16_Witness ==
    /\ op = "AddStep" /\ ret = MarshalError
    /\ Len(tx.Steps) = 1 /\ tx.State = "InProgress"
    /\ IsOk(tx, now) = NoError

\* C17 (as stated): a transaction made by NewTransaction with a positive timeout
\* is InProgress, has no steps, an empty Cache, Etag "*" and a deadline strictly
\* later than its start, and IsOk() at the instant of creation returns no error.
C17_FreshStrictlyLater ==
    \A timeout \in 1..MaxTimeout :
        LET t == NewTransaction(now, timeout, tx.Id)
        IN /\ t.State = "InProgress" /\ t.Steps = <<>> /\ t.Cache = {} /\ t.Etag = "*"
           /\ t.TimeoutMicroseconds > t.StartMicroseconds
           /\ IsOk(t, now) = NoError

\* C17 (amended): a transaction made by NewTransaction with a positive timeout is
\* InProgress, has no steps, an empty Cache, Etag "*" and a deadline not earlier
\* than its start, strictly later when the timeout is a microsecond or more; and
\* IsOk() returns no error at creation and at every later instant up to the end
\* of the deadline's microsecond.
C17_FreshNotEarlier ==
    \A timeout \in 1..MaxTimeout :
        LET t == NewTransaction(now, timeout, tx.Id)
        IN /\ t.State = "InProgress" /\ t.Steps = <<>> /\ t.Cache = {} /\ t.Etag = "*"
           /\ t.TimeoutMicroseconds >= t.StartMicroseconds
           /\ timeout >= UnitsPerMicro => t.TimeoutMicroseconds > t.StartMicroseconds
           /\ \A m \in now..(MaxNow + MaxTimeout) :
                 UnixMicro(m) <= t.TimeoutMicroseconds => IsOk(t, m) = NoError

\* a transaction just made whose timeout ended within the microsecond it started
\* in: the deadline is the start, and IsOk() accepts it
C17_Witness ==
    /\ op = "NewTransaction"
    /\ \E timeout \in 1..MaxTimeout : tx = NewTransaction(now, timeout, tx.Id)
    /\ tx.TimeoutMicroseconds = tx.StartMicroseconds
    /\ IsOk(tx, now) = NoError

\* C18: every successful AddStep appends exactly one step: the earlier steps and
\* State are as before, and the new, last step has the Type, ContentType, Path and
\* InitialETag of the call, Executed false, an empty InitialVersionId, FinalETag
\* and FinalVersionId unset, the transaction's Id as its Tx-Id metadata, the
\* microsecond of the call as its Last-Modified metadata, and an empty payload
\* when the entity is nil.
C18_AppendsOneStep ==
    [][\A a \in StepArgs :
          (CallAddStep(a) /\ ret' = NoError)
             => /\ Len(tx'.Steps) = Len(tx.Steps) + 1
                /\ \A i \in 1..Len(tx.Steps) : tx'.Steps[i] = tx.Steps[i]
                /\ tx'.State = tx.State
                /\ LET step == tx'.Steps[Len(tx'.Steps)]
                   IN /\ step.Type = a.Type /\ step.ContentType = a.ContentType
                      /\ step.Path = a.Path /\ step.InitialETag = a.InitialETag
                      /\ step.Executed = FALSE
                      /\ step.InitialVersionId = ""
                      /\ step.FinalETag = NilPtr /\ step.FinalVersionId = NilPtr
                      /\ step.UserMetadata[TX_ID] = tx.Id
                      /\ step.UserMetadata[LAST_MODIFIED] = FormatInt(now \div UnitsPerMicro)
                      /\ a.Entity = NilEntity => step.Data = <<>>
                      /\ a.Entity # NilEntity => step.Data # <<>>]_vars

\* a delete step without entity was queued behind an executed step
C18_Witness ==
    /\ op = "AddStep" /\ ret = NoError
    /\ Len(tx.Steps) = 2
    /\ tx.Steps[1].Executed
    /\ tx.Steps[2].Type = "delete" /\ tx.Steps[2].Entity = NilEntity /\ tx.Steps[2].Data = <<>>
    /\ ~tx.Steps[2].Executed

\* C19: on a transaction past its deadline whose State is Committing (RollingBack),
\* IsOk() and AddStep return AlreadyCommitted (AlreadyRolledBack) and not
\* TimedOut; TimedOut is returned only when State is InProgress.
C19_StateBeforeExpiry ==
    [][(CallIsOk \/ \E a \in StepArgs : CallAddStep(a))
          => /\ (tx.State = "Committing" /\ UnixMicro(now) > tx.TimeoutMicroseconds)
                   => ret' = TransactionAlreadyCommittedError
             /\ (tx.State = "RollingBack" /\ UnixMicro(now) > tx.TimeoutMicroseconds)
                   => ret' = TransactionAlreadyRolledBackError
             /\ ret' = TransactionTimedOutError => tx.State = "InProgress"]_vars

\* AddStep on a rolled-back transaction past its deadline was refused as rolled back
C19_Witness ==
    /\ op = "AddStep" /\ ret = TransactionAlreadyRolledBackError
    /\ tx.State = "RollingBack"
    /\ UnixMicro(now) > tx.TimeoutMicroseconds

\* C20: under a clock that does not go back, once IsOk() returns TimedOut,
\* AlreadyCommitted or AlreadyRolledBack it returns an error ever after: no
\* operation extends TimeoutMicroseconds or resets State, no later IsOk()
\* accepts the transaction, no later AddStep appends, and Steps is never longer
\* than at the first failing IsOk().
C20_FailurePermanent ==
    /\ [][IsOk(tx, now) \in IsOkErrors
             => /\ IsOk(tx', now') \in IsOkErrors
                /\ Len(tx'.Steps) <= Len(tx.Steps)
                /\ (CallIsOk \/ \E a \in StepArgs : CallAddStep(a)) => ret' \in IsOkErrors]_vars
    /\ [][tx'.TimeoutMicroseconds = tx.TimeoutMicroseconds /\ tx'.State = tx.State]_vars

\* IsOk() refused, as timed out, a transaction holding a step, at the last instant
\* of the clock
C20_Witness ==
    /\ op = "IsOk" /\ ret = TransactionTimedOutError
    /\ Len(tx.Steps) = 1
    /\ now = MaxNow

====
